---- MODULE Spec2Model ----
(***************************************************************************)
(* The atomic cross-chain transaction builders of avalanchejs: class       *)
(* EVMAPI (src/src/apis/evm/api.ts) and its sibling ContractVMAPI          *)
(* (src/unnamed/part_000).  One API object is modelled: its cached fields, *)
(* the persisted key-value store behind getUTXOs, and the asynchronous     *)
(* invocations running on it.  An invocation is suspended only at an       *)
(* await; every action below is one synchronous stretch of a handler.      *)
(*                                                                         *)
(* Amounts are BN values (arbitrary precision).  They are written here in  *)
(* units of 10^6 nAVAX so that 10 * ONEAVAX stays a machine integer; the   *)
(* code only adds, subtracts and compares amounts, which commutes with the *)
(* change of unit.                                                         *)
(***************************************************************************)
EXTENDS Integers, Sequences, FiniteSets, TLC

VARIABLES
  api,              \* which class the object is: "EVMAPI" or "ContractVMAPI"
  networkID,        \* this.core.getNetworkID()
  blockchainID,     \* this.blockchainID
  blockchainAlias,  \* this.blockchainAlias
  AVAXAssetID,      \* this.AVAXAssetID
  txFee,            \* this.txFee
  creationTxFee,    \* this.creationTxFee
  db,               \* this.db: cache name -> stored value
  call              \* the invocations: slot -> activation record

vars == <<api, networkID, blockchainID, blockchainAlias, AVAXAssetID, txFee,
          creationTxFee, db, call>>

(***************************************************************************)
(* JavaScript values.  A value carries its type tag, as typeof/instanceof  *)
(* see it.                                                                 *)
(***************************************************************************)
Undefined == [t |-> "undefined"]
Str(s)    == [t |-> "string", s |-> s]
Buf(b)    == [t |-> "Buffer", b |-> b]
Num(n)    == [t |-> "number", n |-> n]
BN(n)     == [t |-> "BN", n |-> n]

IsUndefined(v) == v.t = "undefined"

\* n bytes, each of value x
Bytes(n, x) == [i \in 1..n |-> x]

ONEAVAX == 1000

ChainIDLength == 32

ADDRESSLENGTH == 20

(***************************************************************************)
(* bintools.  cb58 strings and address bodies are checksummed encodings;   *)
(* the model knows a few of each, by the bytes they decode to.  A string   *)
(* outside the table fails its checksum.                                   *)
(***************************************************************************)
CB58Table ==
  [ cidC  |-> Bytes(32, 1),      \* a chain of the known network, alias "C"
    cidX  |-> Bytes(32, 2),      \* a chain of the known network, alias "X"
    cidP  |-> Bytes(32, 0),      \* the platform chain
    cidZ  |-> Bytes(32, 5),      \* a chain no network default knows
    s31   |-> Bytes(31, 3),
    s33   |-> Bytes(33, 3),
    s0    |-> <<>>,
    avax  |-> Bytes(32, 9),
    other |-> Bytes(32, 8) ]

CB58Valid(s) == s \in DOMAIN CB58Table

cb58Decode(s) == CB58Table[s]

cb58Encode(b) == CHOOSE s \in DOMAIN CB58Table : CB58Table[s] = b

\* an address string is a sequence of characters; "-" separates its parts
RECURSIVE Split(_)
Split(a) ==
  IF a = <<>> THEN << <<>> >>
  ELSE LET rest == Split(Tail(a)) IN
       IF Head(a) = "-" THEN << <<>> >> \o rest
       ELSE << <<Head(a)>> \o Head(rest) >> \o Tail(rest)

AddrBodyTable ==
  [ a1  |-> Bytes(20, 1),
    a2  |-> Bytes(20, 2),
    a19 |-> Bytes(19, 1) ]

AddrBodyValid(seg) == Len(seg) = 1 /\ seg[1] \in DOMAIN AddrBodyTable

\* bintools.stringToAddress: the bytes of the part after the chain prefix
StringToAddressOK(a) ==
  LET abc == Split(a) IN Len(abc) = 2 /\ AddrBodyValid(abc[2])

stringToAddress(a) == AddrBodyTable[Split(a)[2][1]]

\* bintools.parseAddress: the bytes, or undefined when the chain scope, the
\* checksum or the length does not match
parseAddress(addr, bcID, alias, addrlen) ==
  LET abc == Split(addr) IN
  IF /\ Len(abc) = 2
     /\ \/ (~IsUndefined(alias) /\ abc[1] = <<alias.s>>)
        \/ (bcID # "" /\ abc[1] = <<bcID>>)
     /\ AddrBodyValid(abc[2])
     /\ Len(stringToAddress(addr)) = addrlen
  THEN Buf(stringToAddress(addr))
  ELSE Undefined

(***************************************************************************)
(* Spendable outputs.  A UTXO object has an identity key and a payload; on *)
(* the wire and in the store it is a string.  A UTXOSet is a JavaScript    *)
(* object keyed by the identity: at most one entry per key, kept here in   *)
(* insertion order.                                                        *)
(***************************************************************************)
AssetA == Bytes(32, 9)
AssetB == Bytes(32, 8)

UTXO(id, asset, amt) == [id |-> id, asset |-> asset, amt |-> amt]

\* UTXO.toString / UTXO.fromString
UTXOToString(u) == <<u.id, u.asset, u.amt>>

UTXOFromString(s) == [id |-> s[1], asset |-> s[2], amt |-> s[3]]

HasKey(set, id) == \E i \in 1..Len(set) : set[i].id = id

\* UTXOSet.add(utxo, overwrite)
UTXOSetAdd(set, u, overwrite) ==
  IF HasKey(set, u.id)
  THEN IF overwrite
       THEN [i \in 1..Len(set) |-> IF set[i].id = u.id THEN u ELSE set[i]]
       ELSE set
  ELSE Append(set, u)

\* UTXOSet.addArray(strings, overwrite)
RECURSIVE UTXOSetAddArray(_, _, _)
UTXOSetAddArray(set, arr, overwrite) ==
  IF arr = <<>> THEN set
  ELSE UTXOSetAddArray(UTXOSetAdd(set, UTXOFromString(Head(arr)), overwrite),
                       Tail(arr), overwrite)

\* UTXOSet.getAllUTXOStrings()
GetAllUTXOStrings(set) == [i \in 1..Len(set) |-> UTXOToString(set[i])]

MergeRules == {"union", "keepExisting", "keepIncoming", "intersection"}

\* UTXOSet.mergeByRule(other, rule): what `self` holds after the merge
MergeByRule(self, other, rule) ==
  LET InOther(u)   == HasKey(other, u.id)
      NotInSelf(u) == ~HasKey(self, u.id)
      Incoming(i)  == IF HasKey(other, self[i].id)
                      THEN (CHOOSE j \in 1..Len(other) : other[j].id = self[i].id)
                      ELSE 0
  IN CASE rule \in {"union", "keepExisting"} ->
            self \o SelectSeq(other, NotInSelf)
       [] rule = "keepIncoming" ->
            [i \in 1..Len(self) |->
               IF Incoming(i) = 0 THEN self[i] ELSE other[Incoming(i)]]
            \o SelectSeq(other, NotInSelf)
       [] rule = "intersection" ->
            SelectSeq(self, InOther)

(***************************************************************************)
(* Unsigned transactions: the inputs consumed, the outputs created, the    *)
(* chain the transaction is for and the counterpart chain.                 *)
(***************************************************************************)
RECURSIVE Total(_, _)
Total(items, asset) ==
  IF items = <<>> THEN 0
  ELSE (IF Head(items).asset = asset THEN Head(items).amt ELSE 0)
       + Total(Tail(items), asset)

\* UnsignedTx.getInputTotal / getOutputTotal / getBurn
GetInputTotal(utx, asset)  == Total(utx.ins, asset)

GetOutputTotal(utx, asset) == Total(utx.outs, asset)

GetBurn(utx, asset) == GetInputTotal(utx, asset) - GetOutputTotal(utx, asset)

Out(asset, amt, dest) == [asset |-> asset, amt |-> amt, dest |-> dest]

\* the shortest prefix of the outputs of one asset that covers `need`
RECURSIVE Cover(_, _, _)
Cover(set, asset, need) ==
  IF need <= 0 \/ set = <<>> THEN <<>>
  ELSE IF Head(set).asset = asset
       THEN <<Head(set)>> \o Cover(Tail(set), asset, need - Head(set).amt)
       ELSE Cover(Tail(set), asset, need)

AssetsHeld == <<AssetA, AssetB>>

\* UTXOSet.buildImportTx: every atomic output is an input; what they carry is
\* paid to the `to` addresses, less the fee; a fee the atomic outputs do not
\* cover is taken from the local outputs, with the change paid back
ImportAssemble(utxoset, atomics, bcID, sourceChain, fee, feeAsset) ==
  LET inFee    == Total(atomics, feeAsset)
      rest     == IF inFee >= fee THEN 0 ELSE fee - inFee
      local    == Cover(utxoset, feeAsset, rest)
      localAmt == Total(local, feeAsset)
      paid(a)  == Total(atomics, a) - (IF a = feeAsset THEN fee - rest ELSE 0)
      toOuts   == [i \in 1..Len(AssetsHeld) |->
                     Out(AssetsHeld[i], paid(AssetsHeld[i]), "to")]
      Positive(o) == o.amt > 0
      change   == IF localAmt > rest
                  THEN <<Out(feeAsset, localAmt - rest, "change")>> ELSE <<>>
  IN IF localAmt < rest
     THEN [ok |-> FALSE, err |-> "InsufficientFunds"]
     ELSE [ok |-> TRUE,
           tx |-> [type |-> "import", blockchainID |-> bcID,
                   chain |-> sourceChain,
                   ins |-> atomics \o local,
                   outs |-> SelectSeq(toOuts, Positive) \o change]]

\* UTXOSet.buildExportTx: local outputs covering amount + fee are the inputs;
\* `amount` goes to the destination chain, the remainder back as change
ExportAssemble(utxoset, amount, asset, bcID, destinationChain, fee, feeAsset) ==
  LET need     == amount + fee
      local    == Cover(utxoset, feeAsset, need)
      localAmt == Total(local, feeAsset)
      change   == IF localAmt > need
                  THEN <<Out(feeAsset, localAmt - need, "change")>> ELSE <<>>
  IN IF localAmt < need
     THEN [ok |-> FALSE, err |-> "InsufficientFunds"]
     ELSE [ok |-> TRUE,
           tx |-> [type |-> "export", blockchainID |-> bcID,
                   chain |-> destinationChain,
                   ins |-> local,
                   outs |-> <<Out(asset, amount, "export")>> \o change]]

(***************************************************************************)
(* The fee-sanity ("goose egg") guard, after its await of getAVAXAssetID.  *)
(***************************************************************************)
GooseOutputTotal(utx, outTotal, avaxAssetID) ==
  IF outTotal > 0 THEN outTotal ELSE GetOutputTotal(utx, avaxAssetID)

\* the threshold without its factor of ten
CheckGooseEgg_NoFactor(utx, outTotal, avaxAssetID) ==
  LET outputTotal == GooseOutputTotal(utx, outTotal, avaxAssetID)
      fee         == GetBurn(utx, avaxAssetID)
  IN fee <= ONEAVAX \/ fee <= outputTotal

CheckGooseEgg(utx, outTotal, avaxAssetID) ==
  LET outputTotal == GooseOutputTotal(utx, outTotal, avaxAssetID)
      fee         == GetBurn(utx, avaxAssetID)
  IN fee <= ONEAVAX * 10 \/ fee <= outputTotal

(***************************************************************************)
(* Network defaults (utils/constants): the networks that have defaults,    *)
(* and for each the chains it knows, by chain ID and by alias.             *)
(***************************************************************************)
DefaultNetworks == {1}

OtherNetworks == {54321}

DefaultChains ==
  [ cidX |-> [alias |-> "X", blockchainID |-> "cidX"],
    cidP |-> [alias |-> "P", blockchainID |-> "cidP"],
    cidC |-> [alias |-> "C", blockchainID |-> "cidC"],
    X    |-> [alias |-> "X", blockchainID |-> "cidX"],
    P    |-> [alias |-> "P", blockchainID |-> "cidP"],
    C    |-> [alias |-> "C", blockchainID |-> "cidC"] ]

DefaultTxFee == 1

(***************************************************************************)
(* Chain context and fee cache: the synchronous getters and setters.       *)
(***************************************************************************)
\* the defaults consulted although an alias is cached
GetBlockchainAlias_CacheIgnored ==
  IF networkID \in DefaultNetworks /\ blockchainID \in DOMAIN DefaultChains
  THEN Str(DefaultChains[blockchainID].alias)
  ELSE Undefined

\* getBlockchainAlias(): the value of this.blockchainAlias after the call,
\* which is also the value returned
GetBlockchainAlias ==
  IF IsUndefined(blockchainAlias)
  THEN IF networkID \in DefaultNetworks /\ blockchainID \in DOMAIN DefaultChains
       THEN Str(DefaultChains[blockchainID].alias)
       ELSE Undefined
  ELSE blockchainAlias

\* getDefaultTxFee()
GetDefaultTxFee ==
  IF networkID \in DefaultNetworks THEN BN(DefaultTxFee) ELSE BN(0)

\* getTxFee(): the value of this.txFee after the call, also the value returned
GetTxFee == IF IsUndefined(txFee) THEN GetDefaultTxFee ELSE txFee

\* parseAddress(addr), with the alias already resolved
ParseAddress(addr, alias) ==
  parseAddress(addr, blockchainID, alias, ADDRESSLENGTH)

\* _cleanAddressArray(addresses, caller): the position of the first string
\* that does not parse, 0 when there is none
RECURSIVE FirstInvalid(_, _, _)
FirstInvalid(addresses, i, alias) ==
  IF i > Len(addresses) THEN 0
  ELSE IF IsUndefined(ParseAddress(addresses[i], alias)) THEN i
       ELSE FirstInvalid(addresses, i + 1, alias)

\* every entry let through
CleanAddressArray_Unchecked(addresses, caller) ==
  [ok |-> TRUE, addrs |-> addresses]

CleanAddressArray(addresses, caller) ==
  LET bad == FirstInvalid(addresses, 1, GetBlockchainAlias) IN
  IF bad = 0
  THEN [ok |-> TRUE, addrs |-> addresses]
  ELSE [ok |-> FALSE, err |-> "AddressFormat", addr |-> addresses[bad],
        caller |-> caller]

(***************************************************************************)
(* The values the callers and the node supply.                             *)
(***************************************************************************)
MaxFetch == 2

U1  == UTXO("u1", AssetA, 1000)
U1b == UTXO("u1", AssetA, 2000)     \* the key of U1 with another payload
U2  == UTXO("u2", AssetA, 25000)
U3  == UTXO("u3", AssetB, 3000)

UTXOStrings == {UTXOToString(u) : u \in {U1, U1b, U2, U3}}

DistinctKeys(arr) ==
  \A i, j \in 1..Len(arr) : i # j => arr[i][1] # arr[j][1]

\* what a spendable-output fetch can answer: no key twice
FetchResults ==
  {d \in UNION {[1..n -> UTXOStrings] : n \in 0..MaxFetch} : DistinctKeys(d)}

\* the most outputs the node puts in one answer (1024 on a real node)
PageSize == 2

\* what the source chain can hold for the owner addresses: up to one output
\* more than a page
HeldOutputs ==
  {d \in UNION {[1..n -> UTXOStrings] : n \in 0..(PageSize + 1)} :
     DistinctKeys(d)}

\* the node's answer to a fetch without start index: limit 0, or a limit
\* above the page size, stands for one page
FirstPage(held, limit) ==
  LET most == IF limit = 0 \/ limit > PageSize THEN PageSize ELSE limit
  IN SubSeq(held, 1, IF Len(held) < most THEN Len(held) ELSE most)

\* the contents a caller's UTXOSet can have
UTXOSets == {UTXOSetAddArray(<<>>, d, FALSE) : d \in FetchResults}

AddrC1    == <<"C", "-", "a1">>
AddrC2    == <<"C", "-", "a2">>
AddrCid1  == <<"cidC", "-", "a1">>
AddrX1    == <<"X", "-", "a1">>
AddrX2    == <<"X", "-", "a2">>
AddrP2    == <<"P", "-", "a2">>
AddrC19   == <<"C", "-", "a19">>    \* decodes to 19 bytes
AddrXbad  == <<"X", "-", "zz">>     \* fails its checksum
AddrPlain == <<"a1">>               \* no chain prefix

ToLists ==
  { <<>>, <<AddrX1>>, <<AddrX1, AddrX2>>, <<AddrX1, AddrP2>>, <<AddrC1>>,
    <<AddrCid1, AddrC2>>, <<AddrX1, AddrXbad>>, <<AddrPlain>> }

FromLists == { <<AddrC1>>, <<AddrCid1, AddrC2>>, <<AddrX1>>, <<AddrC1, AddrC19>> }

ChangeLists == { <<>>, <<AddrC2>>, <<AddrPlain>> }

OwnerLists == { <<AddrC1>> }

ChainArgs ==
  { Undefined, Str("cidX"), Str("s31"), Str("s33"), Str("s0"), Str("zz"),
    Buf(Bytes(32, 2)), Buf(Bytes(31, 2)), Buf(Bytes(33, 2)), Buf(<<>>),
    Num(7) }

ExportAmounts == {1000, 30000}

FeeChoices == {BN(12000), BN(20000)}

AssetArgs == {Str("avax"), Str("other"), Buf(AssetA), Buf(AssetB)}

\* the asset the node names in answer to the native-asset lookup
StakingAssetID == "avax"

(***************************************************************************)
(* Invocations.  A slot holds the activation record of one asynchronous    *)
(* call: where it is suspended (pc), what it has read so far, and how it   *)
(* ended (res).  net counts the requests it has handed to the transport;   *)
(* assembled, guards, guardTx and guardOk record what it has done.         *)
(***************************************************************************)
Slots == {"a", "b"}

None == [none |-> TRUE]

Pending == [kind |-> "pending"]

Return(v) == [kind |-> "return", v |-> v]

Throw(err, addr, caller) ==
  [kind |-> "throw", err |-> err, addr |-> addr, caller |-> caller]

Idle ==
  [op |-> "none", pc |-> "idle", args |-> None, req |-> None,
   atomics |-> <<>>, asset |-> Undefined, fee |-> Undefined,
   tx |-> None, outTotal |-> 0, gasset |-> Undefined, res |-> Pending,
   net |-> 0, assembled |-> 0, guards |-> 0, guardTx |-> None,
   guardOk |-> FALSE, writes |-> 0, before |-> None]

\* a lookup on every call, whatever is cached
NeedsLookup_Always(refresh) == api = "ContractVMAPI"

\* getAVAXAssetID(refresh) asks the node when nothing is cached or a refresh
\* is forced; EVMAPI's body is commented out and never asks
NeedsLookup(refresh) ==
  /\ api = "ContractVMAPI"
  /\ (IsUndefined(AVAXAssetID) \/ refresh)

\* the request getUTXOs hands to the transport
GetUTXOsRequest(addresses, sourceChain, limit, startIndex) ==
  [method |-> "getUTXOs", addresses |-> addresses, limit |-> limit,
   startIndex |-> startIndex, sourceChain |-> sourceChain]

(***************************************************************************)
(* getUTXOs: the persisted store and the callback run on the response.     *)
(***************************************************************************)
CacheNames == {"n1"}

Absent == [has |-> FALSE]

Stored(v) == [has |-> TRUE, v |-> v]

Arr(a) == [t |-> "Array", a |-> a]

PersistanceOptions(name, overwrite, mergeRule) ==
  [t |-> "object", name |-> name, overwrite |-> overwrite,
   mergeRule |-> mergeRule]

PersistArgs ==
  {Undefined} \cup
  {PersistanceOptions(n, o, r) : n \in CacheNames, o \in BOOLEAN, r \in MergeRules}

\* persistOpts && typeof persistOpts === 'object'
Persists(persistOpts) == persistOpts.t = "object"

\* db.has(name) and the stored value is an array
HasSnapshot(store, name) == store[name].has /\ store[name].v.t = "Array"

\* db.set(name, data, overwrite): an existing value is kept unless overwrite
DbSet(store, name, value, overwrite) ==
  IF store[name].has /\ ~overwrite THEN store
  ELSE [store EXCEPT ![name] = Stored(value)]

\* whether the callback takes the merge branch
Merges(persistOpts, store) ==
  Persists(persistOpts) /\ HasSnapshot(store, persistOpts.name)

\* `utxos` when the write is reached: the fresh set in the merge branch,
\* still empty otherwise
UtxosBeforeWrite(data, persistOpts, store) ==
  IF Merges(persistOpts, store) THEN UTXOSetAddArray(<<>>, data, FALSE) ELSE <<>>

\* the write taking the strings of `utxos` instead of `data`
GetUTXOsData_FromUtxos(data, persistOpts, store) ==
  GetAllUTXOStrings(UtxosBeforeWrite(data, persistOpts, store))

\* the fresh strings appended to the snapshot's
GetUTXOsData_Appended(data, persistOpts, store) ==
  IF Merges(persistOpts, store)
  THEN store[persistOpts.name].v.a \o data
  ELSE data

\* the write taking the fresh strings, the merge dropped
GetUTXOsData_NoMerge(data, persistOpts, store) == data

\* `data` when the write is reached
GetUTXOsData(data, persistOpts, store) ==
  IF Merges(persistOpts, store)
  THEN LET utxos == UTXOSetAddArray(<<>>, data, FALSE)
           self  == UTXOSetAddArray(<<>>, store[persistOpts.name].v.a, FALSE)
       IN GetAllUTXOStrings(MergeByRule(self, utxos, persistOpts.mergeRule))
  ELSE data

\* db.set called without the caller's flag
WriteOverwrite_Always(persistOpts) == TRUE

\* the overwrite flag handed to db.set
WriteOverwrite(persistOpts) == persistOpts.overwrite

\* the fresh strings written under every name, asked for or not
GetUTXOsStore_Unasked(data, persistOpts, store) ==
  [n \in DOMAIN store |-> Stored(Arr(data))]

\* the store after the callback
GetUTXOsStore(data, persistOpts, store) ==
  IF Persists(persistOpts)
  THEN DbSet(store, persistOpts.name,
             Arr(GetUTXOsData(data, persistOpts, store)),
             WriteOverwrite(persistOpts))
  ELSE store

\* the writes the callback attempts
GetUTXOsWrites(persistOpts) == IF Persists(persistOpts) THEN 1 ELSE 0

\* the collection the callback returns
GetUTXOsUtxos(data, persistOpts, store) ==
  UTXOSetAddArray(UtxosBeforeWrite(data, persistOpts, store),
                  GetUTXOsData(data, persistOpts, store), FALSE)

AddressesArgs == { Str(AddrC1), Arr(<<AddrC1, AddrC2>>) }

SourceChainArgs == { Undefined, Str("cidX") }

\* the invocations suspended at an await
InFlight == {t \in Slots : call[t].pc \notin {"idle", "done"}}

\* getUTXOs(addresses, sourceChain, limit, startIndex, persistOpts): up to
\* the request, for arguments drawn from the given sets
GetUTXOsCallWith(s, addressesArgs, sourceChainArgs, persistArgs) ==
  /\ call[s].pc = "idle"
  /\ \E addresses \in addressesArgs, sourceChain \in sourceChainArgs,
        persistOpts \in persistArgs :
       call' = [call EXCEPT ![s] =
         [Idle EXCEPT
            !.op = "getUTXOs", !.pc = "fetch",
            !.args = [persistOpts |-> persistOpts, inFlight |-> InFlight],
            !.req = GetUTXOsRequest(
                      IF addresses.t = "string" THEN <<addresses.s>>
                      ELSE addresses.a,
                      sourceChain, 0, Undefined),
            !.net = 1]]
  /\ UNCHANGED <<api, networkID, blockchainID, blockchainAlias, AVAXAssetID,
                 txFee, creationTxFee, db>>

GetUTXOsCall(s) ==
  GetUTXOsCallWith(s, AddressesArgs, SourceChainArgs, PersistArgs)

\* the callback of getUTXOs on the node's response
GetUTXOsResponseWith(s, results) ==
  /\ call[s].op = "getUTXOs"
  /\ call[s].pc = "fetch"
  /\ \E data \in results :
       LET persistOpts == call[s].args.persistOpts IN
       /\ db' = GetUTXOsStore(data, persistOpts, db)
       /\ call' = [call EXCEPT ![s] =
            [@ EXCEPT
               !.pc = "done",
               !.atomics = data,
               !.before = db,
               !.writes = GetUTXOsWrites(persistOpts),
               !.res = Return(GetUTXOsUtxos(data, persistOpts, db))]]
  /\ UNCHANGED <<api, networkID, blockchainID, blockchainAlias, AVAXAssetID,
                 txFee, creationTxFee>>

GetUTXOsResponse(s) == GetUTXOsResponseWith(s, FetchResults)

\* the caller takes the result; the slot is free again
Finish(s) ==
  /\ call[s].pc = "done"
  /\ call' = [call EXCEPT ![s] = Idle]
  /\ UNCHANGED <<api, networkID, blockchainID, blockchainAlias, AVAXAssetID,
                 txFee, creationTxFee, db>>

(***************************************************************************)
(* Construction.                                                           *)
(***************************************************************************)
Snapshots0 ==
  { Absent, Stored(Str("junk")), Stored(Arr(<<>>)),
    Stored(Arr(<<UTXOToString(U1)>>)),
    Stored(Arr(<<UTXOToString(U2), UTXOToString(U3)>>)) }

InitObject ==
  /\ api \in {"EVMAPI", "ContractVMAPI"}
  /\ networkID \in DefaultNetworks \cup OtherNetworks
  /\ blockchainID = "cidC"
  /\ blockchainAlias = Undefined
  /\ AVAXAssetID = Undefined
  /\ txFee = Undefined
  /\ creationTxFee = Undefined
  /\ call = [s \in Slots |-> Idle]

\* getUTXOs against a store that may already hold a snapshot
InitUTXOs ==
  /\ InitObject
  /\ db \in [CacheNames -> Snapshots0]

NextUTXOs ==
  \/ GetUTXOsCall("a")
  \/ GetUTXOsResponse("a")
  \/ Finish("a")

SpecUTXOs == InitUTXOs /\ [][NextUTXOs]_vars

\* two callers of getUTXOs persisting under one cache name
SharedNameArgs ==
  {PersistanceOptions("n1", TRUE, r) : r \in {"union", "keepIncoming"}}

GetUTXOsCallShared(s) ==
  GetUTXOsCallWith(s, {Str(AddrC1)}, {Undefined}, SharedNameArgs)

\* both callers take their results
FinishAll ==
  /\ \A s \in Slots : call[s].pc = "done"
  /\ call' = [s \in Slots |-> Idle]
  /\ UNCHANGED <<api, networkID, blockchainID, blockchainAlias, AVAXAssetID,
                 txFee, creationTxFee, db>>

InitShared ==
  /\ InitObject
  /\ db \in [CacheNames ->
               {Absent, Stored(Arr(<<>>)), Stored(Arr(<<UTXOToString(U1)>>))}]

\* the answers of the node in the two-caller runs: at most one output each
SharedFetchResults == {d \in FetchResults : Len(d) <= 1}

GetUTXOsResponseShared(s) == GetUTXOsResponseWith(s, SharedFetchResults)

NextShared ==
  \/ \E s \in Slots : GetUTXOsCallShared(s)
  \/ \E s \in Slots : GetUTXOsResponseShared(s)
  \/ FinishAll

SpecShared == InitShared /\ [][NextShared]_vars

(***************************************************************************)
(* The builders, up to their first await.                                  *)
(***************************************************************************)
Fail(err) == [ok |-> FALSE, res |-> Throw(err, <<>>, ""), cleaned |-> TRUE]

FailAddress(c) ==
  [ok |-> FALSE, res |-> Throw(c.err, c.addr, c.caller), cleaned |-> TRUE]

\* bintools.cb58Encode takes a Buffer; handed anything else it may throw
EncodeOutcomes(v) ==
  IF v.t = "Buffer" THEN {"string"} ELSE {"string", "throws"}

\* buildImportTx: the address and source-chain validation
ImportValidate(toAddresses, fromAddresses, changeAddresses, sourceChain, encode) ==
  LET to     == CleanAddressArray(toAddresses, "buildBaseTx")
      from   == CleanAddressArray(fromAddresses, "buildBaseTx")
      change == CleanAddressArray(changeAddresses, "buildBaseTx")
  IN CASE ~to.ok     -> FailAddress(to)
       [] to.ok /\ ~from.ok -> FailAddress(from)
       [] to.ok /\ from.ok /\ ~change.ok -> FailAddress(change)
       [] OTHER ->
          CASE sourceChain.t = "undefined" -> Fail("MissingChainID")
            [] sourceChain.t = "string" ->
                 IF CB58Valid(sourceChain.s)
                 THEN [ok |-> TRUE, srcChain |-> sourceChain,
                       chain |-> Buf(cb58Decode(sourceChain.s))]
                 ELSE Fail("DecodeError")
            [] sourceChain.t = "Buffer" ->
                 [ok |-> TRUE, srcChain |-> Undefined, chain |-> sourceChain]
            [] OTHER ->
                 IF encode = "throws" THEN Fail("TypeError")
                 ELSE Fail("InvalidChainIDType")

\* the fetch issued ahead of the validation
ImportRequests_FetchFirst(v) == 1

\* the requests buildImportTx has issued when its first stretch ends
ImportRequests(v) == IF v.ok THEN 1 ELSE 0

\* the part after the separator taken for the prefix
Prefixes_SecondPart(toAddresses) ==
  {LET abc == Split(toAddresses[i]) IN IF Len(abc) > 1 THEN abc[2] ELSE <<>> :
     i \in 1..Len(toAddresses)}

\* the chain prefixes of the to addresses
Prefixes(toAddresses) ==
  {Split(toAddresses[i])[1] : i \in 1..Len(toAddresses)}

\* a test that only refuses two prefixes or more
OnePrefix_AtMost(toAddresses) == Cardinality(Prefixes(toAddresses)) <= 1

\* Object.keys(prefixes).length is 1
OnePrefix(toAddresses) == Cardinality(Prefixes(toAddresses)) = 1

\* a length test that lets longer IDs through
BadChainLength_ShortOnly(bytes) == Len(bytes) < ChainIDLength

\* destinationChain.length !== 32
BadChainLength(bytes) == Len(bytes) # ChainIDLength

\* buildExportTx: the prefix, destination-chain and address validation
ExportValidate(toAddresses, fromAddresses, changeAddresses, destinationChain) ==
  LET from   == CleanAddressArray(fromAddresses, "buildExportTx")
      change == CleanAddressArray(changeAddresses, "buildExportTx")
      bytes  == IF destinationChain.t = "string"
                THEN cb58Decode(destinationChain.s) ELSE destinationChain.b
      NoClean(f) == [f EXCEPT !.cleaned = FALSE]
  IN CASE ~OnePrefix(toAddresses) ->
            NoClean(Fail("MixedDestinationChain"))
       [] OTHER ->
          CASE destinationChain.t = "undefined" -> NoClean(Fail("MissingChainID"))
            [] destinationChain.t = "string" /\ ~CB58Valid(destinationChain.s) ->
                 NoClean(Fail("DecodeError"))
            [] destinationChain.t \notin {"undefined", "string", "Buffer"} ->
                 NoClean(Fail("InvalidChainIDType"))
            [] OTHER ->
               CASE BadChainLength(bytes) -> NoClean(Fail("InvalidChainIDLength"))
                 [] \E i \in 1..Len(toAddresses) : ~StringToAddressOK(toAddresses[i]) ->
                      NoClean(Fail("DecodeError"))
                 [] OTHER ->
                    IF ~from.ok THEN FailAddress(from)
                    ELSE IF ~change.ok THEN FailAddress(change)
                    ELSE [ok |-> TRUE, cleaned |-> TRUE, chain |-> Buf(bytes),
                          to |-> [i \in 1..Len(toAddresses) |->
                                    stringToAddress(toAddresses[i])]]

\* the record of an invocation that calls getAVAXAssetID() and awaits it
AwaitAsset(rec, lookupPc, readyPc, field) ==
  IF NeedsLookup(FALSE)
  THEN [rec EXCEPT !.pc = lookupPc, !.net = @ + 1]
  ELSE [[rec EXCEPT !.pc = readyPc] EXCEPT ![field] = AVAXAssetID]

\* the cached fields of the object
Fields ==
  [blockchainID |-> blockchainID, blockchainAlias |-> blockchainAlias,
   AVAXAssetID |-> AVAXAssetID, txFee |-> txFee]

\* buildImportTx up to its first await, for arguments drawn from the given
\* sets; with keep, the record holds on to every argument until the caller
\* takes the result
ImportCallWith(s, tos, froms, changes, owners, chains, keep) ==
  /\ call[s].pc = "idle"
  /\ \E toAddresses \in tos, fromAddresses \in froms,
        changeAddresses \in changes, ownerAddresses \in owners,
        sourceChain \in chains :
     \E encode \in EncodeOutcomes(sourceChain) :
       LET v    == ImportValidate(toAddresses, fromAddresses, changeAddresses,
                                  sourceChain, encode)
           args == [to |-> toAddresses, chainArg |-> sourceChain] @@
                   (IF keep
                    THEN [from |-> fromAddresses, change |-> changeAddresses,
                          encode |-> encode, inFlight |-> InFlight,
                          fields |-> Fields]
                    ELSE <<>>)
           rec  == [Idle EXCEPT !.op = "buildImportTx", !.args = args,
                                !.net = ImportRequests(v)]
       IN call' = [call EXCEPT ![s] =
            IF v.ok
            THEN [rec EXCEPT
                    !.pc = "utxos",
                    !.args = args @@ [chain |-> v.chain],
                    !.req = GetUTXOsRequest(ownerAddresses, v.srcChain, 0,
                                            Undefined)]
            ELSE [rec EXCEPT !.pc = "done", !.res = v.res]]
  /\ blockchainAlias' = GetBlockchainAlias
  /\ UNCHANGED <<api, networkID, blockchainID, AVAXAssetID, txFee,
                 creationTxFee, db>>

ImportCall(s) ==
  ImportCallWith(s, ToLists, FromLists, ChangeLists, OwnerLists, ChainArgs,
                 FALSE)

\* the response to the fetch buildImportTx issued: getUTXOs' callback without
\* persistence options, then the call of getAVAXAssetID
\* an answer is the data of the response and, where the model follows the
\* node, what the source chain held when it answered
ImportUTXOsFrom(s, answers) ==
  /\ call[s].op = "buildImportTx"
  /\ call[s].pc = "utxos"
  /\ \E answer \in answers :
       /\ db' = GetUTXOsStore(answer.data, Undefined, db)
       /\ call' = [call EXCEPT ![s] =
            AwaitAsset([@ EXCEPT !.atomics = GetUTXOsUtxos(answer.data,
                                                          Undefined, db),
                                 !.writes = GetUTXOsWrites(Undefined),
                                 !.before = answer.held],
                       "assetLookup", "assetReady", "asset")]
  /\ UNCHANGED <<api, networkID, blockchainID, blockchainAlias, AVAXAssetID,
                 txFee, creationTxFee>>

ImportUTXOsWith(s, results) ==
  ImportUTXOsFrom(s, {[data |-> d, held |-> None] : d \in results})

ImportUTXOs(s) == ImportUTXOsWith(s, FetchResults)

\* buildExportTx up to its first await
ExportCallWith(s, tos, froms, changes, chains, amounts, keep) ==
  /\ call[s].pc = "idle"
  /\ \E toAddresses \in tos, fromAddresses \in froms,
        changeAddresses \in changes, destinationChain \in chains,
        amount \in amounts :
       LET v    == ExportValidate(toAddresses, fromAddresses, changeAddresses,
                                  destinationChain)
           args == [to |-> toAddresses, chainArg |-> destinationChain] @@
                   (IF keep
                    THEN [from |-> fromAddresses, change |-> changeAddresses,
                          inFlight |-> InFlight, fields |-> Fields]
                    ELSE <<>>)
           rec  == [Idle EXCEPT !.op = "buildExportTx", !.args = args]
       IN /\ call' = [call EXCEPT ![s] =
               IF v.ok
               THEN AwaitAsset(
                      [rec EXCEPT !.args = args @@ [chain |-> v.chain,
                                                    amount |-> amount]],
                      "assetLookup", "assetReady", "asset")
               ELSE [rec EXCEPT !.pc = "done", !.res = v.res]]
          /\ blockchainAlias' =
               IF v.cleaned THEN GetBlockchainAlias ELSE blockchainAlias
  /\ UNCHANGED <<api, networkID, blockchainID, AVAXAssetID, txFee,
                 creationTxFee, db>>

ExportCall(s) ==
  ExportCallWith(s, ToLists, FromLists, ChangeLists, ChainArgs, ExportAmounts,
                 FALSE)

(***************************************************************************)
(* The builders after the native asset ID is known: assembly, then the     *)
(* guard.                                                                  *)
(***************************************************************************)
\* the node answers the native-asset lookup of getAVAXAssetID
AssetLookupResponse(s) ==
  /\ call[s].pc = "assetLookup"
  /\ AVAXAssetID' = Buf(cb58Decode(StakingAssetID))
  /\ call' = [call EXCEPT ![s] =
       [@ EXCEPT !.pc = "assetReady", !.asset = Buf(cb58Decode(StakingAssetID))]]
  /\ UNCHANGED <<api, networkID, blockchainID, blockchainAlias, txFee,
                 creationTxFee, db>>

\* the fee argument left out
AssemblyFee_Zero == BN(0)

\* the fee handed to the assembly
AssemblyFee == GetTxFee

\* the unsigned transaction the builder assembles
Assembled(rec, utxoset) ==
  IF ~CB58Valid(blockchainID) THEN [ok |-> FALSE, err |-> "DecodeError"]
  ELSE IF rec.op = "buildImportTx"
  THEN ImportAssemble(utxoset, rec.atomics, cb58Decode(blockchainID),
                      rec.args.chain.b, AssemblyFee.n, rec.asset.b)
  ELSE ExportAssemble(utxoset, rec.args.amount, rec.asset.b,
                      cb58Decode(blockchainID), rec.args.chain.b,
                      AssemblyFee.n, rec.asset.b)

\* the builder resumes with the asset ID: it assembles the transaction from
\* what the caller's UTXOSet holds now, and calls the guard
AssembleWith(s, utxosets, keep) ==
  /\ call[s].op \in {"buildImportTx", "buildExportTx"}
  /\ call[s].pc = "assetReady"
  /\ txFee' = GetTxFee
  /\ \E utxoset \in utxosets :
       LET given == IF keep
                    THEN [call[s] EXCEPT !.args = @ @@ [utxoset |-> utxoset]]
                    ELSE call[s]
       IN
       call' = [call EXCEPT ![s] =
         IF IsUndefined(@.asset)
         THEN [given EXCEPT !.pc = "done", !.res = Throw("TypeError", <<>>, "")]
         ELSE LET r == Assembled(@, utxoset) IN
              IF r.ok
              THEN AwaitAsset(
                     IF keep
                     THEN [given EXCEPT !.tx = r.tx, !.fee = GetTxFee,
                                        !.assembled = @ + 1]
                     ELSE [@ EXCEPT !.tx = r.tx, !.fee = GetTxFee,
                                    !.assembled = @ + 1, !.args = None,
                                    !.req = None, !.atomics = <<>>],
                     "gooseLookup", "gooseReady", "gasset")
              ELSE [given EXCEPT !.pc = "done",
                                 !.res = Throw(r.err, <<>>, "")]]
  /\ UNCHANGED <<api, networkID, blockchainID, blockchainAlias, AVAXAssetID,
                 creationTxFee, db>>

Assemble(s) == AssembleWith(s, UTXOSets, FALSE)

\* the node answers the lookup the guard's getAVAXAssetID issued
GooseLookupResponse(s) ==
  /\ call[s].pc = "gooseLookup"
  /\ AVAXAssetID' = Buf(cb58Decode(StakingAssetID))
  /\ call' = [call EXCEPT ![s] =
       [@ EXCEPT !.pc = "gooseReady", !.gasset = Buf(cb58Decode(StakingAssetID))]]
  /\ UNCHANGED <<api, networkID, blockchainID, blockchainAlias, txFee,
                 creationTxFee, db>>

\* the verdict of the guard ignored
BuilderOutcome_Ignored(ok, utx) == Return(utx)

\* how a builder ends on the guard's verdict
BuilderOutcome(ok, utx) ==
  IF ok THEN Return(utx) ELSE Throw("FeeSanity", <<>>, "")

\* a builder that goes back to its assembly when the guard rejects
GooseResume_Retry(s) ==
  /\ call[s].pc = "gooseReady"
  /\ call' = [call EXCEPT ![s] =
       IF IsUndefined(@.gasset)
       THEN [@ EXCEPT !.pc = "done", !.res = Throw("TypeError", <<>>, "")]
       ELSE LET ok == CheckGooseEgg(@.tx, @.outTotal, @.gasset.b) IN
            IF ok \/ call[s].op = "checkGooseEgg"
            THEN [@ EXCEPT !.pc = "done", !.guards = @ + 1,
                           !.guardTx = call[s].tx, !.guardOk = ok,
                           !.res = Return(IF call[s].op = "checkGooseEgg"
                                          THEN ok ELSE call[s].tx)]
            ELSE [@ EXCEPT !.pc = "assetReady", !.guards = @ + 1,
                           !.guardTx = call[s].tx, !.guardOk = ok]]
  /\ UNCHANGED <<api, networkID, blockchainID, blockchainAlias, AVAXAssetID,
                 txFee, creationTxFee, db>>

\* checkGooseEgg resumes with the asset ID and decides; a builder that
\* awaited it returns the transaction or throws
GooseResume(s) ==
  /\ call[s].pc = "gooseReady"
  /\ call' = [call EXCEPT ![s] =
       IF IsUndefined(@.gasset)
       THEN [@ EXCEPT !.pc = "done", !.res = Throw("TypeError", <<>>, "")]
       ELSE LET ok == CheckGooseEgg(@.tx, @.outTotal, @.gasset.b) IN
            [@ EXCEPT !.pc = "done", !.guards = @ + 1, !.guardTx = call[s].tx,
                      !.guardOk = ok,
                      !.res = IF call[s].op = "checkGooseEgg"
                              THEN Return(ok)
                              ELSE BuilderOutcome(ok, call[s].tx)]]
  /\ UNCHANGED <<api, networkID, blockchainID, blockchainAlias, AVAXAssetID,
                 txFee, creationTxFee, db>>

\* the argument cached as it came
SetAVAXAssetIDValue_Undecoded(avaxAssetID) == avaxAssetID

\* the value setAVAXAssetID(avaxAssetID) caches
SetAVAXAssetIDValue(avaxAssetID) ==
  IF avaxAssetID.t = "string"
  THEN Buf(cb58Decode(avaxAssetID.s))
  ELSE avaxAssetID

\* setAVAXAssetID(avaxAssetID)
SetAVAXAssetID ==
  /\ \E avaxAssetID \in AssetArgs :
       AVAXAssetID' = SetAVAXAssetIDValue(avaxAssetID)
  /\ UNCHANGED <<api, networkID, blockchainID, blockchainAlias, txFee,
                 creationTxFee, db, call>>

\* setTxFee(fee)
SetTxFee ==
  /\ \E fee \in FeeChoices : txFee' = fee
  /\ UNCHANGED <<api, networkID, blockchainID, blockchainAlias, AVAXAssetID,
                 creationTxFee, db, call>>

InitBuild ==
  /\ InitObject
  /\ db = [n \in CacheNames |-> Absent]

NextBuild ==
  \/ SetAVAXAssetID
  \/ SetTxFee
  \/ ImportCall("a")
  \/ ImportUTXOs("a")
  \/ ExportCall("a")
  \/ AssetLookupResponse("a")
  \/ Assemble("a")
  \/ GooseResume("a")
  \/ Finish("a")

SpecBuild == InitBuild /\ [][NextBuild]_vars

(***************************************************************************)
(* Two callers of the builders on one object, each with a collection of    *)
(* its own; the setters are called only while no invocation is under way.  *)
(***************************************************************************)
PairAddresses == { <<AddrC1>> }

PairTos == { <<AddrX1>>, <<AddrX1, AddrP2>> }

PairChains == { Undefined, Str("cidX"), Num(7) }

PairResults == { <<>>, <<UTXOToString(U2)>> }

PairUTXOSets == { <<>>, <<U2>> }

ImportCallPair(s) ==
  ImportCallWith(s, PairAddresses, PairAddresses, {<<>>}, OwnerLists,
                 PairChains, TRUE)

ImportUTXOsPair(s) == ImportUTXOsWith(s, PairResults)

ExportCallPair(s) ==
  ExportCallWith(s, PairTos, PairAddresses, {<<>>}, PairChains, {1000}, TRUE)

AssemblePair(s) == AssembleWith(s, PairUTXOSets, TRUE)

Quiet == \A s \in Slots : call[s].pc = "idle"

NextPair ==
  \/ Quiet /\ SetAVAXAssetID
  \/ Quiet /\ SetTxFee
  \/ \E s \in Slots : ImportCallPair(s)
  \/ \E s \in Slots : ImportUTXOsPair(s)
  \/ \E s \in Slots : ExportCallPair(s)
  \/ \E s \in Slots : AssetLookupResponse(s)
  \/ \E s \in Slots : AssemblePair(s)
  \/ \E s \in Slots : GooseResume(s)
  \/ \E s \in Slots : Finish(s)

SpecPair == InitBuild /\ [][NextPair]_vars

(***************************************************************************)
(* One caller of the builders whose arguments stay on record until the     *)
(* result is taken.                                                        *)
(***************************************************************************)
ImportCallKept(s) ==
  ImportCallWith(s, ToLists, FromLists, ChangeLists, OwnerLists, ChainArgs,
                 TRUE)

ExportCallKept(s) ==
  ExportCallWith(s, ToLists, FromLists, ChangeLists, ChainArgs, ExportAmounts,
                 TRUE)

NextKept ==
  \/ Quiet /\ SetAVAXAssetID
  \/ Quiet /\ SetTxFee
  \/ ImportCallKept("a")
  \/ ImportUTXOsPair("a")
  \/ ExportCallKept("a")
  \/ AssetLookupResponse("a")
  \/ AssemblePair("a")
  \/ GooseResume("a")
  \/ Finish("a")

SpecKept == InitBuild /\ [][NextKept]_vars

(***************************************************************************)
(* The builders, and getUTXOs called without persistence options, on an    *)
(* object whose store may already hold a snapshot.                         *)
(***************************************************************************)
GetUTXOsCallPlain(s) ==
  GetUTXOsCallWith(s, AddressesArgs, SourceChainArgs, {Undefined})

GetUTXOsResponsePlain(s) == GetUTXOsResponseWith(s, PairResults)

NextStored ==
  \/ Quiet /\ SetAVAXAssetID
  \/ ImportCallPair("a")
  \/ ImportUTXOsPair("a")
  \/ ExportCallPair("a")
  \/ AssetLookupResponse("a")
  \/ AssemblePair("a")
  \/ GooseResume("a")
  \/ GetUTXOsCallPlain("b")
  \/ GetUTXOsResponsePlain("b")
  \/ \E s \in Slots : Finish(s)

SpecStored == InitUTXOs /\ [][NextStored]_vars

(***************************************************************************)
(* buildImportTx against a node that answers a fetch with one page of what *)
(* the source chain holds.                                                 *)
(***************************************************************************)
\* the node answers the request buildImportTx sent
ImportUTXOsPaged(s) ==
  ImportUTXOsFrom(s, {[data |-> FirstPage(held, call[s].req.limit),
                       held |-> held] : held \in HeldOutputs})

NextPaged ==
  \/ Quiet /\ SetAVAXAssetID
  \/ Quiet /\ SetTxFee
  \/ ImportCallPair("a")
  \/ ImportUTXOsPaged("a")
  \/ AssetLookupResponse("a")
  \/ AssemblePair("a")
  \/ GooseResume("a")
  \/ Finish("a")

SpecPaged == InitBuild /\ [][NextPaged]_vars

(***************************************************************************)
(* Chain context and fee cache: the synchronous operations, each recorded  *)
(* with its argument, its result and the fields it found.                  *)
(***************************************************************************)
PlatformChainID == "cidP"

DefaultCreationTxFee == 10

\* the fields a synchronous operation can read or write
Context ==
  [blockchainID |-> blockchainID, blockchainAlias |-> blockchainAlias,
   txFee |-> txFee, creationTxFee |-> creationTxFee]

\* the record of a synchronous call that has returned
Sync(op, arg, res) ==
  [Idle EXCEPT !.op = op, !.pc = "done", !.args = [arg |-> arg],
               !.res = Return(res), !.before = Context]

\* the chain refreshBlockchainID() falls back to
DefaultBlockchainID ==
  IF api = "EVMAPI" THEN DefaultChains["C"].blockchainID ELSE PlatformChainID

\* the fallback taken without asking whether the network has defaults
RefreshedID_AnyNetwork(bid) ==
  IF IsUndefined(bid) THEN [ok |-> TRUE, id |-> DefaultBlockchainID]
  ELSE IF bid.t = "string" THEN [ok |-> TRUE, id |-> bid.s]
  ELSE [ok |-> FALSE, id |-> blockchainID]

\* refreshBlockchainID(blockchainID): what it returns and the chain ID after
RefreshedID(bid) ==
  IF IsUndefined(bid) /\ networkID \in DefaultNetworks
  THEN [ok |-> TRUE, id |-> DefaultBlockchainID]
  ELSE IF bid.t = "string" THEN [ok |-> TRUE, id |-> bid.s]
  ELSE [ok |-> FALSE, id |-> blockchainID]

BlockchainIDArgs == { Undefined, Str("cidX"), Str("zz"), Num(7) }

\* refreshBlockchainID(blockchainID), its record kept in slot s
RefreshBlockchainIDIn(s) ==
  \E bid \in BlockchainIDArgs :
    /\ blockchainID' = RefreshedID(bid).id
    /\ call' = [call EXCEPT ![s] =
                  Sync("refreshBlockchainID", bid, RefreshedID(bid).ok)]
    /\ UNCHANGED <<api, networkID, blockchainAlias, AVAXAssetID, txFee,
                   creationTxFee, db>>

RefreshBlockchainID == RefreshBlockchainIDIn("a")

\* getBlockchainAlias()
GetBlockchainAliasCall ==
  /\ blockchainAlias' = GetBlockchainAlias
  /\ call' = [call EXCEPT !["a"] =
                Sync("getBlockchainAlias", Undefined, GetBlockchainAlias)]
  /\ UNCHANGED <<api, networkID, blockchainID, AVAXAssetID, txFee,
                 creationTxFee, db>>

AliasArgs == { Str("C"), Str("mine") }

\* setBlockchainAlias(alias)
\* setBlockchainAlias(alias), its record kept in slot s
SetBlockchainAliasIn(s) ==
  \E alias \in AliasArgs :
    /\ blockchainAlias' = alias
    /\ call' = [call EXCEPT ![s] =
                  Sync("setBlockchainAlias", alias, Undefined)]
    /\ UNCHANGED <<api, networkID, blockchainID, AVAXAssetID, txFee,
                   creationTxFee, db>>

SetBlockchainAlias == SetBlockchainAliasIn("a")

\* getTxFee()
GetTxFeeCall ==
  /\ txFee' = GetTxFee
  /\ call' = [call EXCEPT !["a"] = Sync("getTxFee", Undefined, GetTxFee)]
  /\ UNCHANGED <<api, networkID, blockchainID, blockchainAlias, AVAXAssetID,
                 creationTxFee, db>>

\* setTxFee(fee), recorded
SetTxFeeCall ==
  \E fee \in FeeChoices :
    /\ txFee' = fee
    /\ call' = [call EXCEPT !["a"] = Sync("setTxFee", fee, Undefined)]
    /\ UNCHANGED <<api, networkID, blockchainID, blockchainAlias, AVAXAssetID,
                   creationTxFee, db>>

\* getDefaultCreationTxFee()
GetDefaultCreationTxFee ==
  IF networkID \in DefaultNetworks THEN BN(DefaultCreationTxFee) ELSE BN(0)

\* the creation fee read from the transfer fee's field
GetCreationTxFee_FromTxFee ==
  IF IsUndefined(txFee) THEN GetDefaultCreationTxFee ELSE txFee

\* getCreationTxFee(): the value of this.creationTxFee after the call, also
\* the value returned
GetCreationTxFee ==
  IF IsUndefined(creationTxFee) THEN GetDefaultCreationTxFee
  ELSE creationTxFee

GetCreationTxFeeCall ==
  /\ creationTxFee' = GetCreationTxFee
  /\ call' = [call EXCEPT !["a"] =
                Sync("getCreationTxFee", Undefined, GetCreationTxFee)]
  /\ UNCHANGED <<api, networkID, blockchainID, blockchainAlias, AVAXAssetID,
                 txFee, db>>

\* setCreationTxFee(fee)
SetCreationTxFeeCall ==
  \E fee \in FeeChoices :
    /\ creationTxFee' = fee
    /\ call' = [call EXCEPT !["a"] = Sync("setCreationTxFee", fee, Undefined)]
    /\ UNCHANGED <<api, networkID, blockchainID, blockchainAlias, AVAXAssetID,
                   txFee, db>>

NextContext ==
  \/ RefreshBlockchainID
  \/ GetBlockchainAliasCall
  \/ SetBlockchainAlias
  \/ GetTxFeeCall
  \/ SetTxFeeCall
  \/ GetCreationTxFeeCall
  \/ SetCreationTxFeeCall

SpecContext == InitBuild /\ [][NextContext]_vars

(***************************************************************************)
(* The chain context without setBlockchainAlias: the alias is resolved     *)
(* from the network defaults only.                                         *)
(***************************************************************************)
\* parseAddress(addr)
ParseAddressCall ==
  \E addr \in {AddrC1, AddrX1, AddrP2, AddrCid1} :
    /\ blockchainAlias' = GetBlockchainAlias
    /\ call' = [call EXCEPT !["a"] =
                  Sync("parseAddress", addr,
                       ParseAddress(addr, GetBlockchainAlias))]
    /\ UNCHANGED <<api, networkID, blockchainID, AVAXAssetID, txFee,
                   creationTxFee, db>>

NextAlias ==
  \/ RefreshBlockchainID
  \/ GetBlockchainAliasCall
  \/ ParseAddressCall

SpecAlias == InitBuild /\ [][NextAlias]_vars

(***************************************************************************)
(* A builder in slot "b" while the chain context is changed: slot "a"      *)
(* holds the last refreshBlockchainID or setBlockchainAlias call.          *)
(***************************************************************************)
NextRefresh ==
  \/ RefreshBlockchainIDIn("a")
  \/ SetBlockchainAliasIn("a")
  \/ call["b"].pc = "idle" /\ SetAVAXAssetID
  \/ ImportCallPair("b")
  \/ ImportUTXOsPair("b")
  \/ ExportCallPair("b")
  \/ AssetLookupResponse("b")
  \/ AssemblePair("b")
  \/ GooseResume("b")
  \/ Finish("b")

SpecRefresh == InitBuild /\ [][NextRefresh]_vars

(***************************************************************************)
(* The native asset ID: getAVAXAssetID called on its own, and the setter.  *)
(* Slot "a" holds the getter under way or returned; slot "b" holds the     *)
(* last call of the setter, until a forced refresh is requested.           *)
(***************************************************************************)
\* getAVAXAssetID(refresh): up to its await, or to its return when it asks
\* nothing
GetAVAXAssetIDCall(s) ==
  /\ call[s].pc = "idle"
  /\ \E refresh \in BOOLEAN :
       LET rec == [Idle EXCEPT !.op = "getAVAXAssetID",
                               !.args = [refresh |-> refresh,
                                         since |-> call["b"]],
                               !.before = [AVAXAssetID |-> AVAXAssetID]]
       IN call' = [call EXCEPT
            ![s] = IF NeedsLookup(refresh)
                   THEN [rec EXCEPT !.pc = "assetLookup", !.net = 1]
                   ELSE [rec EXCEPT !.pc = "assetReady", !.asset = AVAXAssetID],
            !["b"] = IF refresh THEN Idle ELSE @]
  /\ UNCHANGED <<api, networkID, blockchainID, blockchainAlias, AVAXAssetID,
                 txFee, creationTxFee, db>>

\* the caller of getAVAXAssetID resumes with the value
AssetReturn(s) ==
  /\ call[s].op = "getAVAXAssetID"
  /\ call[s].pc = "assetReady"
  /\ call' = [call EXCEPT ![s] =
       [@ EXCEPT !.pc = "done", !.res = Return(call[s].asset)]]
  /\ UNCHANGED <<api, networkID, blockchainID, blockchainAlias, AVAXAssetID,
                 txFee, creationTxFee, db>>

\* setAVAXAssetID(avaxAssetID), recorded with the lookups under way
SetAVAXAssetIDCall ==
  \E avaxAssetID \in AssetArgs :
    /\ AVAXAssetID' = SetAVAXAssetIDValue(avaxAssetID)
    /\ call' = [call EXCEPT !["b"] =
         [Sync("setAVAXAssetID", avaxAssetID, Undefined) EXCEPT
            !.args = [arg |-> avaxAssetID, inFlight |-> InFlight],
            !.asset = SetAVAXAssetIDValue(avaxAssetID)]]
    /\ UNCHANGED <<api, networkID, blockchainID, blockchainAlias, txFee,
                   creationTxFee, db>>

NextAsset ==
  \/ SetAVAXAssetIDCall
  \/ GetAVAXAssetIDCall("a")
  \/ AssetLookupResponse("a")
  \/ AssetReturn("a")
  \/ Finish("a")

SpecAsset == InitBuild /\ [][NextAsset]_vars

(***************************************************************************)
(* Credentials: the registry of credential classes by type ID.             *)
(***************************************************************************)
SECPCREDENTIAL == 9

\* a new SECPCredential
SECPCredential == [typeName |-> "SECPCredential", typeID |-> SECPCREDENTIAL]

getCredentialID(cred) == cred.typeID

\* the class returned whatever the ID
SelectCredentialClass_AnyID(credid) == Return(SECPCredential)

\* SelectCredentialClass(credid)
SelectCredentialClass(credid) ==
  IF credid = SECPCREDENTIAL
  THEN Return(SECPCredential)
  ELSE Throw("UnknownCredentialType", <<>>, "SelectCredentialClass")

MaxCredID == 40

CredIDs == (0 - MaxCredID)..MaxCredID

\* a call of SelectCredentialClass, recorded with its argument and outcome
SelectCredentialClassCall ==
  /\ \E credid \in CredIDs :
       call' = [call EXCEPT !["a"] =
         [Idle EXCEPT !.op = "SelectCredentialClass", !.pc = "done",
                      !.args = [credid |-> credid],
                      !.res = SelectCredentialClass(credid)]]
  /\ UNCHANGED <<api, networkID, blockchainID, blockchainAlias, AVAXAssetID,
                 txFee, creationTxFee, db>>

\* SECPCredential.select(id) on a credential some call has returned
CredentialSelect ==
  /\ call["a"].pc = "done" /\ call["a"].res.kind = "return"
  /\ call["a"].op \in {"SelectCredentialClass", "select"}
  /\ \E id \in CredIDs :
       call' = [call EXCEPT !["b"] =
         [Idle EXCEPT !.op = "select", !.pc = "done",
                      !.args = [credid |-> id],
                      !.res = SelectCredentialClass(id)]]
  /\ UNCHANGED <<api, networkID, blockchainID, blockchainAlias, AVAXAssetID,
                 txFee, creationTxFee, db>>

NextCredentials ==
  \/ SelectCredentialClassCall
  \/ CredentialSelect

SpecCredentials == InitBuild /\ [][NextCredentials]_vars

(***************************************************************************)
(* checkGooseEgg called on its own, on transactions of every burn.         *)
(***************************************************************************)
GooseIns ==
  { <<>>, <<UTXO("i1", AssetA, 5000)>>, <<UTXO("i1", AssetA, 20000)>>,
    <<UTXO("i1", AssetA, 21000)>>, <<UTXO("i1", AssetA, 10000)>>,
    <<UTXO("i1", AssetA, 10000), UTXO("i2", AssetA, 1)>>,
    <<UTXO("i1", AssetA, 1000), UTXO("i2", AssetB, 30000)>> }

GooseOuts ==
  { <<>>, <<Out(AssetA, 1000, "to")>>, <<Out(AssetA, 5000, "to")>>,
    <<Out(AssetA, 10000, "to"), Out(AssetB, 500, "change")>> }

GooseTxs ==
  { [type |-> "export", blockchainID |-> cb58Decode("cidC"),
     chain |-> cb58Decode("cidX"), ins |-> i, outs |-> o] :
    i \in GooseIns, o \in GooseOuts }

OutTotals == {0, 1000, 15000, 20000}

\* checkGooseEgg(utx, outTotal): up to its await of getAVAXAssetID
CheckGooseEggCall(s) ==
  /\ call[s].pc = "idle"
  /\ \E utx \in GooseTxs, outTotal \in OutTotals :
       call' = [call EXCEPT ![s] =
         AwaitAsset([Idle EXCEPT !.op = "checkGooseEgg", !.tx = utx,
                                 !.outTotal = outTotal],
                    "gooseLookup", "gooseReady", "gasset")]
  /\ UNCHANGED <<api, networkID, blockchainID, blockchainAlias, AVAXAssetID,
                 txFee, creationTxFee, db>>

NextGoose ==
  \/ SetAVAXAssetID
  \/ CheckGooseEggCall("a")
  \/ GooseLookupResponse("a")
  \/ GooseResume("a")
  \/ Finish("a")

SpecGoose == InitBuild /\ [][NextGoose]_vars

(***************************************************************************)
(* Properties.                                                             *)
(***************************************************************************)
Max(a, b) == IF a >= b THEN a ELSE b

Contents(set) == {set[i] : i \in 1..Len(set)}

Parsed(arr) == {UTXOFromString(arr[i]) : i \in 1..Len(arr)}

IsBuilder(r) == r.op \in {"buildImportTx", "buildExportTx"}

Threw(r, err) == r.pc = "done" /\ r.res.kind = "throw" /\ r.res.err = err

Returned(r) == r.pc = "done" /\ r.res.kind = "return"

\* the characters before the first "-" of an address
PrefixOf(a) ==
  LET dashes == {i \in 1..Len(a) : a[i] = "-"}
      first  == IF dashes = {} THEN Len(a) + 1
                ELSE CHOOSE i \in dashes : \A j \in dashes : i <= j
  IN SubSeq(a, 1, first - 1)

PrefixCount(toAddresses) ==
  Cardinality({PrefixOf(toAddresses[i]) : i \in 1..Len(toAddresses)})

\* the canonical bytes of a textual or Buffer chain argument
HasCanonical(c) ==
  \/ c.t = "Buffer"
  \/ (c.t = "string" /\ CB58Valid(c.s))

Canonical(c) == IF c.t = "string" THEN cb58Decode(c.s) ELSE c.b

\* C1: checkGooseEgg(utx, outTotal) returns true exactly when
\* burn <= max(10 * ONEAVAX, outputTotal), with outputTotal the explicit
\* outTotal when positive and the transaction's native output total
\* otherwise; burn 0 is accepted, burn 5 AVAX with outputTotal 0 is
\* accepted, burn 20 AVAX with outputTotal 1 AVAX is rejected.
C1_GooseEggThreshold ==
  \A s \in Slots :
    (call[s].op = "checkGooseEgg" /\ Returned(call[s])) =>
      LET r           == call[s]
          native      == r.gasset.b
          burn        == Total(r.tx.ins, native) - Total(r.tx.outs, native)
          outputTotal == IF r.outTotal > 0 THEN r.outTotal
                         ELSE Total(r.tx.outs, native)
      IN /\ r.res.v = (burn <= Max(10 * ONEAVAX, outputTotal))
         /\ (burn = 0 => r.res.v)
         /\ (burn = 5 * ONEAVAX /\ outputTotal = 0 => r.res.v)
         /\ (burn = 20 * ONEAVAX /\ outputTotal = ONEAVAX => ~r.res.v)

\* a call that rejected a burn of 20 AVAX against an output total of 1 AVAX
C1_Witness ==
  \E s \in Slots :
    /\ call[s].op = "checkGooseEgg" /\ Returned(call[s])
    /\ call[s].outTotal = 0
    /\ Total(call[s].tx.outs, call[s].gasset.b) = ONEAVAX
    /\ Total(call[s].tx.ins, call[s].gasset.b) = 21 * ONEAVAX
    /\ call[s].res.v = FALSE

\* C2 as stated: every run of a builder evaluates the guard exactly once,
\* after assembly and before it returns, returns a transaction only when
\* the guard accepted it, and throws the fee-sanity error when it rejected.
C2_GuardOnceInEveryRun ==
  \A s \in Slots :
    (IsBuilder(call[s]) /\ call[s].pc = "done") =>
      /\ call[s].guards = 1
      /\ call[s].assembled = 1
      /\ call[s].guardTx = call[s].tx
      /\ (call[s].res.kind = "return" =>
            call[s].guardOk /\ call[s].res.v = call[s].guardTx)
      /\ (~call[s].guardOk => Threw(call[s], "FeeSanity"))

\* C2 amended: every run of a builder that assembles a transaction
\* evaluates the guard exactly once, on that transaction, after the
\* assembly and before it returns; a run that assembles none never
\* evaluates it; a transaction is returned only when the guard accepted
\* that transaction, and a rejection ends the run with the fee-sanity
\* error and no transaction.
C2_GuardOnceAfterAssembly ==
  \A s \in Slots :
    IsBuilder(call[s]) =>
      LET r == call[s] IN
      /\ r.guards <= 1 /\ r.assembled <= 1
      /\ (r.assembled = 0 => r.guards = 0)
      /\ (r.pc # "done" => r.guards = 0 /\ r.res = Pending)
      /\ (r.pc \in {"gooseLookup", "gooseReady"} => r.assembled = 1)
      /\ (r.pc = "done" /\ r.assembled = 1 => r.guards = 1)
      /\ (r.guards = 1 => r.guardTx = r.tx)
      /\ (Returned(r) => r.guards = 1 /\ r.guardOk /\ r.res.v = r.guardTx)
      /\ (r.guards = 1 /\ ~r.guardOk => Threw(r, "FeeSanity"))
      /\ (Threw(r, "FeeSanity") => r.guards = 1 /\ ~r.guardOk)

\* a run the guard ended with the fee-sanity error
C2_Witness ==
  \E s \in Slots :
    /\ IsBuilder(call[s]) /\ Threw(call[s], "FeeSanity")
    /\ call[s].assembled = 1 /\ call[s].guards = 1

ExportWithArgs(r) == r.op = "buildExportTx" /\ r.args # None

\* C4: buildExportTx raises the mixed-destination-chain error when the to
\* addresses carry two or more distinct prefixes; with exactly one prefix
\* it does not, and goes on to the destination-chain checks (an absent
\* destination chain is then what it reports).
C4_MixedPrefixes ==
  \A s \in Slots :
    ExportWithArgs(call[s]) =>
      LET r == call[s] IN
      /\ (PrefixCount(r.args.to) >= 2 => Threw(r, "MixedDestinationChain"))
      /\ (PrefixCount(r.args.to) = 1 =>
            /\ ~Threw(r, "MixedDestinationChain")
            /\ (IsUndefined(r.args.chainArg) => Threw(r, "MissingChainID")))

\* an export refused for its two prefixes
C4_Witness ==
  \E s \in Slots :
    /\ ExportWithArgs(call[s])
    /\ PrefixCount(call[s].args.to) = 2
    /\ Threw(call[s], "MixedDestinationChain")

\* C5 as stated: given a textual or Buffer destination chain, buildExportTx
\* raises the invalid-length error whenever the canonical form is not 32
\* bytes long, and not when it is.
C5_LengthAlways ==
  \A s \in Slots :
    (ExportWithArgs(call[s]) /\ HasCanonical(call[s].args.chainArg)) =>
      (Threw(call[s], "InvalidChainIDLength")
         <=> Len(Canonical(call[s].args.chainArg)) # 32)

\* C5 amended: when the to addresses pass the same-prefix check and the
\* destination chain is textual or a Buffer, buildExportTx raises the
\* invalid-length error exactly when the canonical form is not 32 bytes
\* long, 0 bytes included.
C5_LengthAfterPrefixCheck ==
  \A s \in Slots :
    (/\ ExportWithArgs(call[s])
     /\ HasCanonical(call[s].args.chainArg)
     /\ PrefixCount(call[s].args.to) = 1) =>
      (Threw(call[s], "InvalidChainIDLength")
         <=> Len(Canonical(call[s].args.chainArg)) # 32)

\* an export refused for a destination chain of no bytes
C5_Witness ==
  \E s \in Slots :
    /\ ExportWithArgs(call[s])
    /\ call[s].args.chainArg = Buf(<<>>)
    /\ Threw(call[s], "InvalidChainIDLength")

\* the builder runs whose earlier validations passed: the addresses for
\* buildImportTx, the same-prefix check for buildExportTx
ReachedChainChecks(r) ==
  /\ IsBuilder(r) /\ r.args # None
  /\ (r.op = "buildImportTx" => ~Threw(r, "AddressFormat"))
  /\ (r.op = "buildExportTx" => PrefixCount(r.args.to) = 1)

\* C6: past the earlier validations, a builder raises the missing-chain-ID
\* error for an absent counterpart chain, the invalid-type error for one
\* that is neither textual nor a Buffer, and neither for a textual or
\* Buffer one.
C6_ChainPresenceAndType ==
  \A s \in Slots :
    ReachedChainChecks(call[s]) =>
      LET r == call[s]
          c == r.args.chainArg
      IN /\ (c.t = "undefined" => Threw(r, "MissingChainID"))
         /\ (c.t \notin {"undefined", "string", "Buffer"} =>
               Threw(r, "InvalidChainIDType"))
         /\ (c.t \in {"string", "Buffer"} =>
               /\ ~Threw(r, "MissingChainID")
               /\ ~Threw(r, "InvalidChainIDType"))

\* C7: a builder run that ends with an address-format, missing-chain-ID,
\* invalid-type, invalid-length or mixed-destination error has issued no
\* request to the transport.
ValidationErrors ==
  {"AddressFormat", "MissingChainID", "InvalidChainIDType",
   "InvalidChainIDLength", "MixedDestinationChain"}

C7_NoRequestBeforeValidationError ==
  \A s \in Slots :
    (/\ IsBuilder(call[s]) /\ call[s].pc = "done"
     /\ call[s].res.kind = "throw"
     /\ call[s].res.err \in ValidationErrors) =>
      call[s].net = 0

\* an import refused for its missing source chain
C7_Witness ==
  \E s \in Slots :
    /\ call[s].op = "buildImportTx"
    /\ Threw(call[s], "MissingChainID")
    /\ call[s].net = 0

\* the completed getUTXOs calls that supplied persistence options
PersistedCall(r) ==
  r.op = "getUTXOs" /\ r.pc = "done" /\ r.args.persistOpts.t = "object"

\* the outputs a merge rule keeps, from the snapshot's and the fresh ones
MergedContents(old, fresh, rule) ==
  LET oldKeys   == {u.id : u \in old}
      freshKeys == {u.id : u \in fresh}
  IN CASE rule \in {"union", "keepExisting"} ->
            old \cup {u \in fresh : u.id \notin oldKeys}
       [] rule = "keepIncoming" ->
            fresh \cup {u \in old : u.id \notin freshKeys}
       [] rule = "intersection" ->
            {u \in old : u.id \in freshKeys}

StoredContents(v) == Parsed(v.v.a)

\* C8: when a snapshot exists under the cache name, the collection
\* getUTXOs returns is exactly the merge of the fresh set into the snapshot
\* under the caller's rule, and with overwrite that merge is what is stored
\* afterwards, for every merge rule.
C8_ReturnsTheMerge ==
  \A s \in Slots :
    (PersistedCall(call[s]) /\
     HasSnapshot(call[s].before, call[s].args.persistOpts.name)) =>
      LET r      == call[s]
          opts   == r.args.persistOpts
          merged == MergedContents(StoredContents(r.before[opts.name]),
                                   Parsed(r.atomics), opts.mergeRule)
      IN /\ Contents(r.res.v) = merged
         /\ (opts.overwrite =>
               /\ HasSnapshot(db, opts.name)
               /\ StoredContents(db[opts.name]) = merged)

\* C9: when nothing is stored under the cache name, the value stored
\* afterwards is the fresh array as fetched, and the collection returned
\* holds exactly the fresh outputs.
C9_FirstWriteVerbatim ==
  \A s \in Slots :
    (PersistedCall(call[s]) /\
     ~call[s].before[call[s].args.persistOpts.name].has) =>
      LET r    == call[s]
          opts == r.args.persistOpts
      IN /\ db[opts.name] = Stored(Arr(r.atomics))
         /\ Contents(r.res.v) = Parsed(r.atomics)

\* a first write of two fetched outputs
C9_Witness ==
  \E s \in Slots :
    /\ PersistedCall(call[s])
    /\ ~call[s].before[call[s].args.persistOpts.name].has
    /\ Len(call[s].atomics) = 2
    /\ db[call[s].args.persistOpts.name] = Stored(Arr(call[s].atomics))

\* C10: the write follows the overwrite flag: without overwrite a value
\* already stored under the cache name is unchanged by the call; with
\* overwrite the value stored afterwards is the one this call computed (the
\* merge when a snapshot existed, the fresh array otherwise); a call with
\* persistence options attempts exactly one write.
C10_WriteFollowsOverwrite ==
  \A s \in Slots :
    PersistedCall(call[s]) =>
      LET r    == call[s]
          opts == r.args.persistOpts
          old  == r.before[opts.name]
      IN /\ r.writes = 1
         /\ (~opts.overwrite /\ old.has => db[opts.name] = old)
         /\ (opts.overwrite =>
               /\ HasSnapshot(db, opts.name)
               /\ IF HasSnapshot(r.before, opts.name)
                  THEN StoredContents(db[opts.name]) =
                         MergedContents(StoredContents(old), Parsed(r.atomics),
                                        opts.mergeRule)
                  ELSE db[opts.name].v.a = r.atomics)

\* a call without overwrite that fetched outputs the kept snapshot lacks
C10_Witness ==
  \E s \in Slots :
    /\ PersistedCall(call[s])
    /\ ~call[s].args.persistOpts.overwrite
    /\ HasSnapshot(call[s].before, call[s].args.persistOpts.name)
    /\ Parsed(call[s].atomics) \ StoredContents(db[call[s].args.persistOpts.name]) # {}
    /\ db = call[s].before

\* two completed getUTXOs calls under one cache name, union rule, overwrite,
\* that were in flight at the same time
RacedUnion ==
  /\ \A s \in Slots : PersistedCall(call[s])
  /\ \A s \in Slots : call[s].args.persistOpts.mergeRule = "union"
  /\ \E s \in Slots : call[s].args.inFlight # {}

Keys(set) == {u.id : u \in set}

AliasOf(f) ==
  IF f.blockchainAlias.t # "undefined" THEN f.blockchainAlias
  ELSE IF networkID \in DefaultNetworks /\ blockchainID \in DOMAIN DefaultChains
       THEN Str(DefaultChains[blockchainID].alias)
       ELSE Undefined

FeeOf(f) ==
  IF f.txFee.t # "undefined" THEN f.txFee
  ELSE IF networkID \in DefaultNetworks THEN BN(DefaultTxFee) ELSE BN(0)

AssetOf(f) ==
  IF api = "ContractVMAPI" /\ f.AVAXAssetID.t = "undefined"
  THEN Buf(CB58Table[StakingAssetID])
  ELSE f.AVAXAssetID

Answers(f) == <<AliasOf(f), FeeOf(f), AssetOf(f)>>

FeeSeen == FeeOf(Fields)

AssetSeen == AssetOf(Fields)

\* how a builder ends on the arguments, the fetch and the collection of the
\* record r when it runs with no other invocation under way
AloneOutcome(r) ==
  LET a      == r.args
      import == r.op = "buildImportTx"
      v      == IF import
                THEN ImportValidate(a.to, a.from, a.change, a.chainArg, a.encode)
                ELSE ExportValidate(a.to, a.from, a.change, a.chainArg)
  IN IF ~v.ok THEN v.res
     ELSE IF AssetSeen.t = "undefined" THEN Throw("TypeError", <<>>, "")
     ELSE
       LET native == AssetSeen.b
           t == IF import
                THEN ImportAssemble(a.utxoset, r.atomics, CB58Table[blockchainID],
                                    v.chain.b, FeeSeen.n, native)
                ELSE ExportAssemble(a.utxoset, a.amount, native,
                                    CB58Table[blockchainID], v.chain.b,
                                    FeeSeen.n, native)
       IN IF ~t.ok THEN Throw(t.err, <<>>, "")
          ELSE IF Total(t.tx.ins, native) - Total(t.tx.outs, native)
                    <= Max(10 * ONEAVAX, Total(t.tx.outs, native))
               THEN Return(t.tx)
               ELSE Throw("FeeSanity", <<>>, "")

\* C12: two concurrent builder invocations on one object, each with its own
\* collection and no setter called meanwhile, are independent: while an
\* invocation is under way the getters answer what they answered when it
\* began, whatever the other invocation has done, and under every
\* interleaving it ends as it would when run alone.
C12_Independent ==
  \A s \in Slots :
    IsBuilder(call[s]) =>
      /\ Answers(call[s].args.fields) = Answers(Fields)
      /\ (call[s].pc = "done" => call[s].res = AloneOutcome(call[s]))

\* an import and an export that were under way together and both returned
\* a transaction
C12_Witness ==
  /\ call["a"].op = "buildImportTx" /\ Returned(call["a"])
  /\ call["b"].op = "buildExportTx" /\ Returned(call["b"])
  /\ call["b"].args.inFlight = {"a"}

\* the last synchronous call, when it was op
Last(op) == call["a"].op = op /\ call["a"].pc = "done"

C14_BlockchainAlias ==
  /\ Last("getBlockchainAlias") =>
       LET r == call["a"]
           b == r.before
       IN /\ r.res.kind = "return"
          /\ blockchainAlias = r.res.v
          /\ IF b.blockchainAlias.t # "undefined"
             THEN r.res.v = b.blockchainAlias
             ELSE IF networkID \in DefaultNetworks /\
                     b.blockchainID \in DOMAIN DefaultChains
                  THEN r.res.v = Str(DefaultChains[b.blockchainID].alias)
                  ELSE r.res.v = Undefined
  /\ Last("setBlockchainAlias") => blockchainAlias = call["a"].args.arg

\* a lookup that found no alias for a chain the defaults do not know, on a
\* network that has defaults
C14_Witness ==
  /\ Last("getBlockchainAlias")
  /\ networkID \in DefaultNetworks
  /\ blockchainID = "zz"
  /\ call["a"].res.v = Undefined
  /\ blockchainAlias = Undefined

\* the default fee of the network, zero when the network has no defaults
DefaultFeeOf(fee) == IF networkID \in DefaultNetworks THEN BN(fee) ELSE BN(0)

\* C17: getTxFee and getCreationTxFee each return the cached fee when there
\* is one (a value resolved earlier or one a setter stored) and otherwise
\* resolve, cache and return the network default, zero on a network
\* without defaults; setTxFee(f) and setCreationTxFee(f) cache f; none of
\* the four touches the other fee.
C17_FeesLazyAndIndependent ==
  LET r == call["a"]
      b == r.before
  IN /\ Last("getTxFee") =>
          /\ r.res.v = (IF b.txFee.t = "undefined"
                        THEN DefaultFeeOf(DefaultTxFee) ELSE b.txFee)
          /\ txFee = r.res.v
          /\ creationTxFee = b.creationTxFee
     /\ Last("getCreationTxFee") =>
          /\ r.res.v = (IF b.creationTxFee.t = "undefined"
                        THEN DefaultFeeOf(DefaultCreationTxFee)
                        ELSE b.creationTxFee)
          /\ creationTxFee = r.res.v
          /\ txFee = b.txFee
     /\ Last("setTxFee") =>
          txFee = r.args.arg /\ creationTxFee = b.creationTxFee
     /\ Last("setCreationTxFee") =>
          creationTxFee = r.args.arg /\ txFee = b.txFee

\* the creation fee resolved to the network default while the transfer fee
\* holds a value a setter stored
C17_Witness ==
  /\ Last("getCreationTxFee")
  /\ call["a"].before.creationTxFee = Undefined
  /\ networkID \in DefaultNetworks
  /\ creationTxFee = BN(DefaultCreationTxFee)
  /\ txFee = BN(12000)

\* C15: getAVAXAssetID(refresh) asks the node exactly when nothing is
\* cached or refresh is true; when it asks it returns the decoded answer,
\* otherwise it returns the cached value; either way what it returns is an
\* asset ID, never undefined.
C15_LookupIffAbsentOrRefresh ==
  \A s \in Slots :
    (call[s].op = "getAVAXAssetID" /\ call[s].pc = "done") =>
      LET r == call[s]
          cached == r.before.AVAXAssetID
      IN /\ (r.net = 1) = (cached.t = "undefined" \/ r.args.refresh)
         /\ r.net \in {0, 1}
         /\ (r.net = 1 => r.res = Return(Buf(CB58Table[StakingAssetID])))
         /\ (r.net = 0 => r.res = Return(cached))
         /\ r.res.v.t # "undefined"

\* the bytes a value given to setAVAXAssetID stands for
CanonicalBytes(v) == IF v.t = "string" THEN Buf(CB58Table[v.s]) ELSE v

\* a getAVAXAssetID() without refresh, called and returned while the setter
\* call recorded in slot "b" was the last one and no refresh was forced
GetAfterSet ==
  /\ call["b"].op = "setAVAXAssetID"
  /\ call["a"].op = "getAVAXAssetID" /\ call["a"].pc = "done"
  /\ ~call["a"].args.refresh
  /\ call["a"].args.since = call["b"]

\* C16 as stated: setAVAXAssetID(v) caches the canonical bytes of v, and
\* every later getAVAXAssetID() without refresh returns those bytes and asks
\* nothing, until the next setAVAXAssetID or forced refresh.
C16_SetThenGet ==
  /\ call["b"].op = "setAVAXAssetID" =>
       call["b"].asset = CanonicalBytes(call["b"].args.arg)
  /\ GetAfterSet =>
       /\ call["a"].res = Return(CanonicalBytes(call["b"].args.arg))
       /\ call["a"].net = 0

\* C16 amended: the same, for a setter called while no lookup was under
\* way; a lookup already under way stores the node's answer over the
\* setter's value when it completes.
C16_SetThenGetNoLookupPending ==
  /\ call["b"].op = "setAVAXAssetID" =>
       call["b"].asset = CanonicalBytes(call["b"].args.arg)
  /\ (GetAfterSet /\ call["b"].args.inFlight = {}) =>
       /\ call["a"].res = Return(CanonicalBytes(call["b"].args.arg))
       /\ call["a"].net = 0

\* the textual ID of another asset set on a ContractVMAPI, and returned by a
\* later call without a lookup
C16_Witness ==
  /\ GetAfterSet
  /\ api = "ContractVMAPI"
  /\ call["b"].args = [arg |-> Str("other"), inFlight |-> {}]
  /\ call["a"].res = Return(Buf(AssetB))
  /\ call["a"].net = 0

\* the type IDs under which a credential class is registered
RegisteredIDs == {9}

\* C18: SelectCredentialClass(tag) returns for a registered tag a credential
\* whose getCredentialID() is the tag, and raises the unknown-credential
\* error for every other integer; each class is returned for exactly one
\* tag.
C18_SelectCredentialClass ==
  /\ \A s \in Slots :
       (call[s].op \in {"SelectCredentialClass", "select"} /\
        call[s].pc = "done") =>
         LET r == call[s] IN
         IF r.args.credid \in RegisteredIDs
         THEN r.res.kind = "return" /\ getCredentialID(r.res.v) = r.args.credid
         ELSE Threw(r, "UnknownCredentialType")
  /\ \A s, t \in Slots :
       (/\ call[s].op \in {"SelectCredentialClass", "select"}
        /\ call[t].op \in {"SelectCredentialClass", "select"}
        /\ Returned(call[s]) /\ Returned(call[t])
        /\ call[s].res.v.typeName = call[t].res.v.typeName) =>
         call[s].args.credid = call[t].args.credid

\* the registered tag selected, and an unregistered one refused by the
\* credential's own select
C18_Witness ==
  /\ call["a"].op = "SelectCredentialClass" /\ Returned(call["a"])
  /\ call["a"].args.credid = 9
  /\ call["b"].op = "select" /\ Threw(call["b"], "UnknownCredentialType")
  /\ call["b"].args.credid = 0 - 9

\* C19: a set merged with itself under the union or keep-existing rule
\* is the set it was, in size and contents; so a getUTXOs call with
\* persistence that fetches exactly the outputs of the stored snapshot
\* leaves the snapshot's size and contents as they were under those rules.
C19_MergeWithItself ==
  /\ \A set \in UTXOSets, rule \in {"union", "keepExisting"} :
       /\ Len(MergeByRule(set, set, rule)) = Len(set)
       /\ Contents(MergeByRule(set, set, rule)) = Contents(set)
  /\ \A s \in Slots :
       (/\ PersistedCall(call[s])
        /\ call[s].args.persistOpts.mergeRule \in {"union", "keepExisting"}
        /\ HasSnapshot(call[s].before, call[s].args.persistOpts.name)
        /\ Parsed(call[s].atomics) =
             StoredContents(call[s].before[call[s].args.persistOpts.name])) =>
         LET name == call[s].args.persistOpts.name IN
         /\ HasSnapshot(db, name)
         /\ StoredContents(db[name]) = StoredContents(call[s].before[name])
         /\ Len(db[name].v.a) = Len(call[s].before[name].v.a)

\* the two outputs of the snapshot fetched again, in the other order, and
\* written back under the union rule
C19_Witness ==
  \E s \in Slots :
    /\ PersistedCall(call[s])
    /\ call[s].args.persistOpts.mergeRule = "union"
    /\ call[s].args.persistOpts.overwrite
    /\ call[s].before["n1"] = Stored(Arr(<<UTXOToString(U2), UTXOToString(U3)>>))
    /\ call[s].atomics = <<UTXOToString(U3), UTXOToString(U2)>>
    /\ db["n1"] = call[s].before["n1"]

\* C20: once buildImportTx has assembled, the candidate inputs it handed to
\* the assembly hold every output the source chain held for ownerAddresses
\* when the fetch was answered, also when they are more than one page.
C20_FullInventory ==
  \A s \in Slots :
    (call[s].op = "buildImportTx" /\ call[s].assembled = 1) =>
      Parsed(call[s].before) \subseteq Contents(call[s].atomics)

\* the same for a source chain that holds no more than one page
C20_FullInventoryWithinAPage ==
  \A s \in Slots :
    (/\ call[s].op = "buildImportTx"
     /\ call[s].assembled = 1
     /\ Len(call[s].before) <= PageSize) =>
      Parsed(call[s].before) \subseteq Contents(call[s].atomics)

\* an import assembled from one page while the source chain held more
C20_Witness ==
  \E s \in Slots :
    /\ call[s].op = "buildImportTx"
    /\ call[s].assembled = 1
    /\ Len(call[s].before) = PageSize + 1
    /\ Len(call[s].atomics) = PageSize

\* C21: a builder run that ends with the address-format error names the
\* address that did not parse under this chain and the builder that was
\* called: buildImportTx from buildImportTx, buildExportTx from
\* buildExportTx.
C21_ErrorNamesAddressAndBuilder ==
  \A s \in Slots :
    (IsBuilder(call[s]) /\ Threw(call[s], "AddressFormat")) =>
      /\ IsUndefined(ParseAddress(call[s].res.addr, GetBlockchainAlias))
      /\ call[s].res.caller = call[s].op

\* the same with the operation the code hands to _cleanAddressArray
C21_ErrorNamesAddressAndGivenCaller ==
  \A s \in Slots :
    (IsBuilder(call[s]) /\ Threw(call[s], "AddressFormat")) =>
      /\ IsUndefined(ParseAddress(call[s].res.addr, GetBlockchainAlias))
      /\ call[s].res.caller =
           (IF call[s].op = "buildImportTx" THEN "buildBaseTx"
            ELSE "buildExportTx")

\* an import refused for an address of another chain
C21_Witness ==
  \E s \in Slots :
    /\ call[s].op = "buildImportTx"
    /\ Threw(call[s], "AddressFormat")
    /\ call[s].res.addr = AddrX1

\* the imports whose fetch has been issued and is still on record
ImportFetched(r) == r.op = "buildImportTx" /\ r.req # None /\ r.args # None

\* C22: the fetch buildImportTx issues carries the source chain, for a
\* source chain given textually and for one given as canonical bytes.
C22_FetchCarriesSourceChain ==
  \A s \in Slots :
    ImportFetched(call[s]) =>
      LET r == call[s] IN
      /\ r.req.sourceChain.t = "string"
      /\ cb58Decode(r.req.sourceChain.s) = r.args.chain.b

\* the same for a source chain given textually; given as bytes, the request
\* carries no source chain
C22_FetchCarriesTextualSourceChain ==
  \A s \in Slots :
    ImportFetched(call[s]) =>
      LET r == call[s] IN
      IF r.args.chainArg.t = "string"
      THEN /\ r.req.sourceChain = r.args.chainArg
           /\ cb58Decode(r.req.sourceChain.s) = r.args.chain.b
      ELSE /\ r.args.chainArg.t = "Buffer"
           /\ IsUndefined(r.req.sourceChain)

\* an import of a source chain given as bytes, its fetch issued
C22_Witness ==
  \E s \in Slots :
    /\ ImportFetched(call[s])
    /\ call[s].args.chainArg = Buf(Bytes(32, 2))
    /\ call[s].pc = "utxos"

\* the first entry of a list that does not parse under this chain, 0 when
\* every entry does
FirstForeign(addresses) == FirstInvalid(addresses, 1, GetBlockchainAlias)

\* the exports whose to addresses and destination chain passed their checks
ExportPastChain(r) ==
  /\ r.op = "buildExportTx" /\ r.pc # "idle"
  /\ PrefixCount(r.args.to) = 1
  /\ HasCanonical(r.args.chainArg)
  /\ Len(Canonical(r.args.chainArg)) = ChainIDLength
  /\ \A i \in 1..Len(r.args.to) : StringToAddressOK(r.args.to[i])

\* C23: buildExportTx raises the address-format error for the first entry
\* of fromAddresses, then of changeAddresses, that does not parse under this
\* chain, and for no entry of toAddresses: to addresses that all carry the
\* prefix of another chain are accepted and decoded.
C23_ExportValidatesFromAndChangeOnly ==
  \A s \in Slots :
    ExportPastChain(call[s]) =>
      LET r      == call[s]
          from   == FirstForeign(r.args.from)
          change == FirstForeign(r.args.change)
      IN /\ (from # 0 =>
               /\ Threw(r, "AddressFormat")
               /\ r.res.addr = r.args.from[from])
         /\ (from = 0 /\ change # 0 =>
               /\ Threw(r, "AddressFormat")
               /\ r.res.addr = r.args.change[change])
         /\ (from = 0 /\ change = 0 =>
               /\ ~Threw(r, "AddressFormat")
               /\ ~Threw(r, "DecodeError")
               /\ "amount" \in DOMAIN r.args)

\* an export to an address of the X chain, from this chain, that went on to
\* assemble its transaction
C23_Witness ==
  \E s \in Slots :
    /\ ExportPastChain(call[s])
    /\ call[s].args.to = <<AddrX1>>
    /\ FirstForeign(call[s].args.to) = 1
    /\ call[s].args.from = <<AddrC1>>
    /\ call[s].assembled = 1

\* an export refused for a from address of another chain
C23_WitnessRefused ==
  \E s \in Slots :
    /\ ExportPastChain(call[s])
    /\ call[s].args.from = <<AddrX1>>
    /\ Threw(call[s], "AddressFormat")

\* C24: getUTXOs called without persistence options, the fetch inside
\* buildImportTx included, leaves every persisted snapshot as it was, and
\* what it returns is the fresh fetch whatever the store holds; so no step
\* of a buildImportTx or buildExportTx invocation changes the store.
C24_StoreUntouchedWithoutPersistence ==
  /\ [][db' = db]_vars
  /\ [](\A s \in Slots :
          /\ (call[s].op = "getUTXOs" /\ Returned(call[s]) =>
                /\ call[s].writes = 0
                /\ call[s].res.v = UTXOSetAddArray(<<>>, call[s].atomics, FALSE))
          /\ (call[s].op = "buildImportTx" /\ call[s].pc # "utxos" =>
                call[s].writes = 0))

\* an import assembled from a fetched output, and a getUTXOs call that
\* returned one, while the store holds another
C24_Witness ==
  /\ db["n1"] = Stored(Arr(<<UTXOToString(U1)>>))
  /\ call["a"].op = "buildImportTx" /\ call["a"].assembled = 1
  /\ call["a"].atomics = <<U2>>
  /\ call["b"].op = "getUTXOs" /\ Returned(call["b"])
  /\ call["b"].res.v = <<U2>>

\* C25: a builder invocation assembles at most one transaction and issues
\* at most one spendable-output fetch (buildExportTx none) next to at most
\* one native-asset lookup; when the guard rejects, the invocation has
\* ended with the fee-sanity error, the rejected transaction being the one
\* assembled, with the fee read at assembly.
C25_NoRetryAfterRejection ==
  \A s \in Slots :
    IsBuilder(call[s]) =>
      LET r       == call[s]
          fetches == IF r.op = "buildImportTx" THEN 1 ELSE 0
          lookups == IF api = "ContractVMAPI" THEN 1 ELSE 0
      IN /\ r.assembled <= 1
         /\ r.guards <= 1
         /\ r.net <= fetches + lookups
         /\ (r.guards = 1 /\ ~r.guardOk =>
               /\ Threw(r, "FeeSanity")
               /\ r.assembled = 1
               /\ r.guardTx = r.tx
               /\ GetBurn(r.tx, r.asset.b) = r.fee.n)

\* an import the guard rejected, after one fetch and one lookup
C25_Witness ==
  \E s \in Slots :
    /\ call[s].op = "buildImportTx"
    /\ Threw(call[s], "FeeSanity")
    /\ call[s].net = 2
    /\ call[s].assembled = 1

\* C26: for a transaction a builder returns, the guard read the native
\* asset ID the assembly was given, and the burn the guard evaluated is the
\* burn of the transaction for the fee asset of the assembly.
C26_GuardReadsTheAssemblyAsset ==
  \A s \in Slots :
    (IsBuilder(call[s]) /\ Returned(call[s])) =>
      LET r == call[s] IN
      /\ r.gasset = r.asset
      /\ GetBurn(r.guardTx, r.gasset.b) = GetBurn(r.res.v, r.asset.b)

\* a transaction returned after the guard measured its burn in another
\* asset than the one the fee was paid in
C26_Witness ==
  \E s \in Slots :
    /\ IsBuilder(call[s]) /\ Returned(call[s])
    /\ call[s].asset = Buf(AssetA)
    /\ call[s].gasset = Buf(AssetB)
    /\ GetBurn(call[s].res.v, AssetA) = 20000
    /\ GetBurn(call[s].guardTx, AssetB) = 0

\* C27: the chain ID in the transaction a builder assembled is the chain
\* ID of the object when the invocation validated its addresses.
C27_AssembledForTheValidatedChain ==
  \A s \in Slots :
    (IsBuilder(call[s]) /\ call[s].assembled = 1) =>
      call[s].tx.blockchainID = cb58Decode(call[s].args.fields.blockchainID)

\* a transaction for the X chain from an invocation that validated its
\* addresses on the C chain
C27_Witness ==
  \E s \in Slots :
    /\ IsBuilder(call[s]) /\ Returned(call[s])
    /\ call[s].args.fields.blockchainID = "cidC"
    /\ call[s].args.from = <<AddrC1>>
    /\ call[s].res.v.blockchainID = cb58Decode("cidX")

\* the alias the network defaults give the current blockchainID
DefaultAlias ==
  IF networkID \in DefaultNetworks /\ blockchainID \in DOMAIN DefaultChains
  THEN Str(DefaultChains[blockchainID].alias)
  ELSE Undefined

\* C28: with setBlockchainAlias never called, what getBlockchainAlias
\* returns is absent or the network-default alias of the current
\* blockchainID, and an address parseAddress accepts is scoped by the
\* current blockchainID or by that alias, never by the alias of a chain
\* the object was refreshed away from.
C28_AliasFollowsTheChain ==
  /\ (IsUndefined(GetBlockchainAlias) \/ GetBlockchainAlias = DefaultAlias)
  /\ (Last("getBlockchainAlias") =>
        (IsUndefined(call["a"].res.v) \/ call["a"].res.v = DefaultAlias))
  /\ (Last("parseAddress") /\ ~IsUndefined(call["a"].res.v) =>
        \/ PrefixOf(call["a"].args.arg) = <<blockchainID>>
        \/ Str(PrefixOf(call["a"].args.arg)[1]) = DefaultAlias)

\* what holds instead: a cached alias is the default alias of a chain the
\* object has had, the current one or an earlier one
C28_AliasOfTheFirstResolution ==
  \/ IsUndefined(blockchainAlias)
  \/ /\ networkID \in DefaultNetworks
     /\ \E id \in {"cidC", "cidX", "cidP"} :
          blockchainAlias = Str(DefaultChains[id].alias)

\* refreshed to the X chain, the object still answers with the alias of
\* the C chain and parses an address of the C chain
C28_Witness ==
  /\ blockchainID = "cidX"
  /\ GetBlockchainAlias = Str("C")
  /\ Last("parseAddress")
  /\ call["a"].args.arg = AddrC1
  /\ ~IsUndefined(call["a"].res.v)

\* C29: buildExportTx called with no to address raises the mixed-
\* destination-chain error, the number of distinct prefixes being zero, and
\* it does so whatever the destination chain is, an absent or malformed one
\* included, before anything is asked of the transport.
C29_EmptyToAddresses ==
  \A s \in Slots :
    (ExportWithArgs(call[s]) /\ call[s].args.to = <<>>) =>
      /\ Cardinality(Prefixes(call[s].args.to)) = 0
      /\ Threw(call[s], "MixedDestinationChain")
      /\ call[s].net = 0

\* an export with no to address and no destination chain
C29_Witness ==
  \E s \in Slots :
    /\ ExportWithArgs(call[s])
    /\ call[s].args.to = <<>>
    /\ IsUndefined(call[s].args.chainArg)
    /\ Threw(call[s], "MixedDestinationChain")

\* an export with no to address and a destination chain that does not decode
C29_WitnessMalformed ==
  \E s \in Slots :
    /\ ExportWithArgs(call[s])
    /\ call[s].args.to = <<>>
    /\ call[s].args.chainArg = Str("zz")
    /\ Threw(call[s], "MixedDestinationChain")

====
